---- MODULE Spec2Model ----
(***************************************************************************)
(* Latency monitoring of doIIarplus/maple_discord_bot: the Sampler threads *)
(* (utils/ping_utils.py), the module-level monitoring state, its command   *)
(* handlers and supervisor sweep (commands/monitoring_commands.py), and    *)
(* the TaskManager's copy of the same state (core/tasks.py), as the bot    *)
(* wires them in SpookieBot.setup_hook and SpookieBot.close (core/bot.py). *)
(*                                                                         *)
(* Threads interleave at every access to the shared queue.  The coroutines *)
(* of the event loop (command handlers, tasks.loop bodies, close) run one  *)
(* at a time; a handler's drain loop holds the event loop from its first   *)
(* qsize() to its last, while the Sampler threads keep running.            *)
(***************************************************************************)
EXTENDS Integers, Sequences, FiniteSets, TLC

\* ---------------------------------------------------------------- bounds
\* CHANNEL_TO_IP has 40 entries; the model keeps channels 1..NumChannels.
NumChannels == 2
\* deque([], 150): the capacity of one history window, scaled down.
WindowCap == 2
\* MAX_QUEUE_SIZE = 40 * 300, scaled down.
MAX_QUEUE_SIZE == 1
\* Packets the Samplers create in one run of the model.
MaxPackets == 3
\* Sampler threads that terminate in one run of the model.
MaxDeaths == 1
\* Packets the Samplers create in one run of the statistics model.
MaxSamples == 4

\* ------------------------------------------------------------- constants
\* Python values are records tagged with their type, so that any two of them
\* can be compared.
None == [type |-> "NoneType"]
Float(tenths) == [type |-> "float", tenths |-> tenths]
QueueRef(i) == [type |-> "Queue", obj |-> i]
DEFAULT_PORT == 8585

Channels == 1..NumChannels
\* CHANNEL_TO_IP.keys() / .items(), in insertion order.
CHANNEL_TO_IP == [c \in Channels |-> c]

\* tcp_latency.measure_latency(host, port) with its default runs=1 returns a
\* list: one float (milliseconds) for a connection that was established, one
\* None for a connection that failed or timed out; the empty list is the
\* result of a call that made no run.  Floats are kept in tenths of a
\* millisecond, so 15 is 1.5 ms.
Latencies == {Float(15)}
ProbeResults == {<<>>, <<None>>} \cup {<<l>> : l \in Latencies}

\* int(x) of a non-negative float: truncation.
IntOf(x) == x.tenths \div 10

VARIABLES
    phase,                    \* "constructed" | "running" | "closed" (bot.py)
    now,                      \* datetime.datetime.now()
    threads,                  \* every PingCheckingThread object ever created
    queues,                   \* every Queue object ever created: its items
    queue,                    \* monitoring_commands.queue: None or a queue
    ping_checking_threads,    \* monitoring_commands.ping_checking_threads
    channel_ping_history,     \* monitoring_commands.channel_ping_history
    tm_queue,                 \* TaskManager.queue
    tm_ping_checking_threads, \* TaskManager.ping_checking_threads
    tm_channel_ping_history,  \* TaskManager.channel_ping_history
    drain,                    \* the drain loop the event loop is in, if any
    channel_ping_averages,    \* monitoring_commands.channel_ping_averages
    tm_channel_ping_averages, \* TaskManager.channel_ping_averages
    report,                   \* what the step just taken returned, if anything
    sweep_has_failed,         \* the module's sweep loop ended on an exception
    created,                  \* history: the number of Packets created
    ingested                  \* history: per window, the Packets appended

vars == <<phase, now, threads, queues, queue, ping_checking_threads,
          channel_ping_history, tm_queue, tm_ping_checking_threads,
          tm_channel_ping_history, drain, channel_ping_averages,
          tm_channel_ping_averages, report, sweep_has_failed, created,
          ingested>>

history_vars == <<created, ingested>>
tm_vars == <<tm_queue, tm_ping_checking_threads, tm_channel_ping_history>>
stats_vars == <<channel_ping_averages, tm_channel_ping_averages, report>>

\* ------------------------------------------------------------ sequences
RECURSIVE SeqSum(_)
SeqSum(s) == IF s = <<>> THEN 0 ELSE Head(s) + SeqSum(Tail(s))

Range(s) == {s[i] : i \in DOMAIN s}

\* The last n elements of s (all of s when it is shorter).
LastN(s, n) == IF Len(s) <= n THEN s ELSE SubSeq(s, Len(s) - n + 1, Len(s))

\* ------------------------------------------------------------- Packet
\* @dataclass Packet(channel, ping, time, success).  id is the object's
\* identity (two Packets with equal fields are still two objects); the
\* program does not read it.
Packet(id, channel, ping, time, success) ==
    [id |-> id, channel |-> channel, ping |-> ping, time |-> time,
     success |-> success]

\* A deque built without maxlen: append never discards.
DequeAppendUnbounded(d, x, cap) == Append(d, x)

\* A bounded buffer that refuses the new element when it is full.
DequeAppendKeepOldest(d, x, cap) == IF Len(d) >= cap THEN d ELSE Append(d, x)

\* collections.deque(maxlen=cap).append(x): at full capacity the leftmost
\* element is discarded.
DequeAppend(d, x, cap) ==
    IF Len(d) >= cap THEN Append(Tail(d), x) ELSE Append(d, x)

\* Queue.qsize() of the queue object q refers to.
qsize(q) == Len(queues[q.obj])

\* A put at the head: last in, first out.
QueuePutFront(items, x) == <<x>> \o items

\* A get that returns the oldest item and leaves it in the queue.
QueueGetPeek(items) == [item |-> Head(items), rest |-> items]

\* Queue.put(x) and Queue.get() on the items of a queue that is not empty:
\* first in, first out.
QueuePut(items, x) == Append(items, x)

QueueGet(items) == [item |-> Head(items), rest |-> Tail(items)]

\* ------------------------------------------------- PingCheckingThread
\* PingCheckingThread.__init__ followed by start(): the thread is alive and
\* at the top of run()'s loop.
NewThread(q, channel, ip_addr, port) ==
    [result_queue |-> q, channel |-> channel, ip_addr |-> ip_addr,
     port |-> port, handled |-> FALSE, alive |-> TRUE, pc |-> "sleep",
     latency |-> None, packet |-> None]

is_alive(t) == threads[t].alive

Deaths == Cardinality({t \in DOMAIN threads : ~threads[t].alive})

\* run(), lines 88-98: sleep, probe, build the Packet.  `if latency:` is the
\* truth value of a list (non-empty); int(None) raises TypeError, which
\* escapes run() and ends the thread.
Raises(latency) == latency # <<>> /\ latency[1] = None

\* The latency stored without int().
PingOfRaw(latency) == IF latency # <<>> THEN latency[1].tenths ELSE 0

PingOf(latency) == IF latency # <<>> THEN IntOf(latency[1]) ELSE 0

SuccessOf(latency) == latency # <<>>

Measure(t) ==
    /\ threads[t].alive
    /\ threads[t].pc = "sleep"
    /\ \E latency \in ProbeResults :
         IF Raises(latency)
         THEN /\ Deaths < MaxDeaths
              /\ threads' = [threads EXCEPT ![t].alive = FALSE,
                                            ![t].pc = "done",
                                            ![t].latency = latency]
              /\ UNCHANGED <<now, created>>
         ELSE /\ created < MaxPackets
              /\ now' = now + 1
              /\ created' = created + 1
              /\ threads' =
                   [threads EXCEPT
                      ![t].pc = "qsize",
                      ![t].latency = latency,
                      ![t].packet =
                         Packet(created', threads[t].channel,
                                PingOf(latency), now', SuccessOf(latency))]
    /\ UNCHANGED <<phase, queues, queue, ping_checking_threads,
                   channel_ping_history, tm_vars, drain, ingested>>
    /\ UNCHANGED <<stats_vars, sweep_has_failed>>

\* run(), line 99: one evaluation of `self._result_queue.qsize() >
\* MAX_QUEUE_SIZE`.
CheckQsize(t) ==
    /\ threads[t].alive
    /\ threads[t].pc = "qsize"
    /\ threads' = [threads EXCEPT ![t].pc =
                     IF qsize(threads[t].result_queue) > MAX_QUEUE_SIZE
                     THEN "get" ELSE "put"]
    /\ UNCHANGED <<phase, now, queues, queue, ping_checking_threads,
                   channel_ping_history, tm_vars, drain, history_vars>>
    /\ UNCHANGED <<stats_vars, sweep_has_failed>>

\* run(), line 100: self._result_queue.get(), which blocks while the queue
\* is empty and removes the oldest item.
OverflowGet(t) ==
    /\ threads[t].alive
    /\ threads[t].pc = "get"
    /\ LET q == threads[t].result_queue IN
         /\ queues[q.obj] # <<>>
         /\ queues' = [queues EXCEPT ![q.obj] = QueueGet(queues[q.obj]).rest]
    /\ threads' = [threads EXCEPT ![t].pc = "qsize"]
    /\ UNCHANGED <<phase, now, queue, ping_checking_threads,
                   channel_ping_history, tm_vars, drain, history_vars>>
    /\ UNCHANGED <<stats_vars, sweep_has_failed>>

\* run(), line 101: self._result_queue.put(packet), then the next iteration.
Put(t) ==
    /\ threads[t].alive
    /\ threads[t].pc = "put"
    /\ LET q == threads[t].result_queue IN
         queues' = [queues EXCEPT
                      ![q.obj] = QueuePut(queues[q.obj], threads[t].packet)]
    /\ threads' = [threads EXCEPT ![t].pc = "sleep", ![t].packet = None,
                                  ![t].latency = None]
    /\ UNCHANGED <<phase, now, queue, ping_checking_threads,
                   channel_ping_history, tm_vars, drain, history_vars>>
    /\ UNCHANGED <<stats_vars, sweep_has_failed>>

\* ------------------------------------------------------ the drain loops
\* The places that drain the queue into a store while the bot runs: the
\* /ping and /ping_graph handlers use the module's queue and windows,
\* TaskManager.check_ping_and_notify uses the TaskManager's.  The module-level
\* coroutine check_ping_and_notify(client) has the same loop as /ping but no
\* caller and no tasks.loop in the repository, so it never runs.
Sites == {"ping", "ping_graph", "tm_notify"}

Idle == [site |-> "none", pc |-> "idle"]

StoreOf(site) == IF site = "tm_notify" THEN "tm" ELSE "module"

QueueOf(site) == IF site = "tm_notify" THEN tm_queue ELSE queue

\* One evaluation of the loop condition `queue and queue.qsize() != 0`
\* (/ping, /ping_graph) or `queue.qsize() != 0` behind the handler's early
\* return on a queue that is None (TaskManager.check_ping_and_notify).
LoopCondition(site) == QueueOf(site) # None /\ qsize(QueueOf(site)) # 0

\* The handler goes into its loop body, or leaves the loop and runs to its
\* end without touching the queue or the windows again.
AfterCondition(site) ==
    IF LoopCondition(site) THEN [site |-> site, pc |-> "get"] ELSE Idle

\* A handler starts on the idle event loop and evaluates its loop condition
\* for the first time.  Commands arrive once the bot is set up, and until
\* the gateway is closed behind cleanup_monitoring; the TaskManager's loop
\* runs from start_all_tasks to stop_all_tasks.
BeginDrain(site) ==
    /\ drain = Idle
    /\ IF site = "tm_notify" THEN phase = "running"
                             ELSE phase \in {"running", "closed"}
    /\ drain' = AfterCondition(site)
    /\ UNCHANGED <<phase, now, threads, queues, queue, ping_checking_threads,
                   channel_ping_history, tm_vars, history_vars>>
    /\ UNCHANGED <<stats_vars, sweep_has_failed>>

\* A store that keeps every sample in the window of the first channel.
WindowKeyFirst(packet) == 1

\* The key of the window a Packet is appended to: channel_ping_history[
\* packet.channel].
WindowKey(packet) == packet.channel

\* packet = queue.get(); channel_ping_history[packet.channel].append(packet)
\* get() blocks while the queue is empty.  A window that is missing raises
\* KeyError after the Packet has left the queue: the handler ends there
\* (TaskManager.check_ping_and_notify logs it, the others let it escape).
DrainGet ==
    /\ drain.pc = "get"
    /\ LET q      == QueueOf(drain.site)
           store  == StoreOf(drain.site)
           packet == QueueGet(queues[q.obj]).item
           hist   == IF store = "tm" THEN tm_channel_ping_history
                                     ELSE channel_ping_history
           key    == WindowKey(packet)
           hist2  == [hist EXCEPT ![key] =
                        DequeAppend(hist[key], packet, WindowCap)]
       IN
         /\ queues[q.obj] # <<>>
         /\ queues' = [queues EXCEPT ![q.obj] = QueueGet(queues[q.obj]).rest]
         /\ IF key \in DOMAIN hist
            THEN /\ IF store = "tm"
                    THEN /\ tm_channel_ping_history' = hist2
                         /\ UNCHANGED channel_ping_history
                    ELSE /\ channel_ping_history' = hist2
                         /\ UNCHANGED tm_channel_ping_history
                 /\ ingested' =
                      [ingested EXCEPT ![<<store, key>>] =
                         Append(@, packet.id)]
                 /\ drain' = [drain EXCEPT !.pc = "qsize"]
            ELSE /\ drain' = Idle
                 /\ UNCHANGED <<channel_ping_history,
                                tm_channel_ping_history, ingested>>
    /\ UNCHANGED <<phase, now, threads, queue, ping_checking_threads,
                   tm_queue, tm_ping_checking_threads, created>>
    /\ UNCHANGED <<stats_vars, sweep_has_failed>>

\* The loop condition again, after an append.
DrainQsize ==
    /\ drain.pc = "qsize"
    /\ drain' = AfterCondition(drain.site)
    /\ UNCHANGED <<phase, now, threads, queues, queue, ping_checking_threads,
                   channel_ping_history, tm_vars, history_vars>>
    /\ UNCHANGED <<stats_vars, sweep_has_failed>>

\* ------------------------------------------------------ the supervisor
\* A sweep that finds every thread alive.
DeadChannelsNone(list) == <<>>

\* A sweep that restarts every thread of the list, dead or alive.
DeadChannelsAll(list) == [i \in DOMAIN list |-> threads[list[i]].channel]

\* The channels of the dead threads of a list, in list order.
RECURSIVE DeadChannels(_)
DeadChannels(list) ==
    IF list = <<>> THEN <<>>
    ELSE (IF is_alive(Head(list)) THEN <<>>
          ELSE <<threads[Head(list)].channel>>) \o DeadChannels(Tail(list))

\* A sweep that forgets to drop the threads it has marked.
SweepKeepAll(list) == list

\* [t for t in list if not t._handled], every dead thread of the list having
\* been marked _handled.
Sweep(list) ==
    SelectSeq(list, LAMBDA t : ~(threads[t].handled \/ ~is_alive(t)))

\* One new started thread per dead channel, on queue q.
Replacements(dead, q) ==
    [i \in 1..Len(dead) |->
        NewThread(q, dead[i], CHANNEL_TO_IP[dead[i]], DEFAULT_PORT)]

\* The thread objects after a sweep of `list`: the dead ones of the list are
\* marked, the replacements are added.
ThreadsAfterSweep(list, q) ==
    [t \in DOMAIN threads |->
        IF t \in Range(list) /\ ~is_alive(t)
        THEN [threads[t] EXCEPT !.handled = TRUE] ELSE threads[t]]
    \o Replacements(DeadChannels(list), q)

\* The list after a sweep: the threads kept, then the replacements.
ListAfterSweep(list) ==
    Sweep(list) \o [i \in 1..Len(DeadChannels(list)) |-> Len(threads) + i]

\* A sweep that sets the windows up again, as initialize_monitoring does.
check_threads_and_restart_resetting_windows ==
    /\ drain = Idle
    /\ phase = "running"
    /\ ~sweep_has_failed
    /\ queue # None
    /\ threads' = ThreadsAfterSweep(ping_checking_threads, queue)
    /\ ping_checking_threads' = ListAfterSweep(ping_checking_threads)
    /\ channel_ping_history' = [c \in Channels |-> <<>>]
    /\ UNCHANGED <<phase, now, queues, queue, tm_vars, drain, history_vars,
                   stats_vars, sweep_has_failed>>

\* monitoring_commands.check_threads_and_restart, a tasks.loop started by
\* initialize_monitoring and stopped by cleanup_monitoring; discord.py ends a
\* tasks.loop whose body lets an exception escape.
check_threads_and_restart ==
    /\ drain = Idle
    /\ phase = "running"
    /\ ~sweep_has_failed
    /\ IF queue = None
       THEN UNCHANGED <<threads, ping_checking_threads>>
       ELSE /\ threads' = ThreadsAfterSweep(ping_checking_threads, queue)
            /\ ping_checking_threads' = ListAfterSweep(ping_checking_threads)
    /\ UNCHANGED <<phase, now, queues, queue, channel_ping_history, tm_vars,
                   drain, history_vars>>
    /\ UNCHANGED <<stats_vars, sweep_has_failed>>

\* TaskManager.check_threads_and_restart, a tasks.loop started by
\* start_all_tasks and cancelled by stop_all_tasks.
tm_check_threads_and_restart ==
    /\ drain = Idle
    /\ phase = "running"
    /\ IF tm_queue = None
       THEN UNCHANGED <<threads, tm_ping_checking_threads>>
       ELSE /\ threads' = ThreadsAfterSweep(tm_ping_checking_threads, tm_queue)
            /\ tm_ping_checking_threads' =
                 ListAfterSweep(tm_ping_checking_threads)
    /\ UNCHANGED <<phase, now, queues, queue, ping_checking_threads,
                   channel_ping_history, tm_queue, tm_channel_ping_history,
                   drain, history_vars>>
    /\ UNCHANGED <<stats_vars, sweep_has_failed>>

\* ------------------------------------------------- start and shutdown
\* initialize_monitoring: a new queue, both collections cleared, then one
\* started thread and one empty window of 150 per channel.
InitialThreads(q) ==
    [c \in Channels |-> NewThread(q, c, CHANNEL_TO_IP[c], DEFAULT_PORT)]

\* SpookieBot.setup_hook: initialize_monitoring(), which also starts the
\* module's check_threads_and_restart, then TaskManager.start_all_tasks().
\* Nothing calls TaskManager.initialize_ping_monitoring, so TaskManager.queue
\* stays None.
setup_hook ==
    /\ phase = "constructed"
    /\ phase' = "running"
    /\ queues' = Append(queues, <<>>)
    /\ queue' = QueueRef(Len(queues) + 1)
    /\ threads' = threads \o InitialThreads(queue')
    /\ ping_checking_threads' = [c \in Channels |-> Len(threads) + c]
    /\ channel_ping_history' = [c \in Channels |-> <<>>]
    /\ UNCHANGED <<now, tm_vars, drain, history_vars>>
    /\ UNCHANGED <<stats_vars, sweep_has_failed>>

\* SpookieBot.close: TaskManager.stop_all_tasks(), then cleanup_monitoring():
\* the sweep is stopped, every listed thread is marked _handled, and the
\* list, the windows and the averages are cleared.  run() never reads
\* _handled, and the queue stays.
close ==
    /\ phase = "running"
    /\ drain = Idle
    /\ phase' = "closed"
    /\ threads' = [t \in DOMAIN threads |->
                     IF t \in Range(ping_checking_threads)
                     THEN [threads[t] EXCEPT !.handled = TRUE]
                     ELSE threads[t]]
    /\ ping_checking_threads' = <<>>
    /\ channel_ping_history' = <<>>
    /\ UNCHANGED <<now, queues, queue, tm_vars, drain, history_vars>>
    /\ channel_ping_averages' = <<>>
    /\ UNCHANGED <<tm_channel_ping_averages, report, sweep_has_failed>>

\* ------------------------------------------------------ specification
Stores == {"module", "tm"}

\* TaskManager.__init__ builds its windows; the module's globals start empty.
Init ==
    /\ phase = "constructed"
    /\ now = 0
    /\ threads = <<>>
    /\ queues = <<>>
    /\ queue = None
    /\ ping_checking_threads = <<>>
    /\ channel_ping_history = <<>>
    /\ tm_queue = None
    /\ tm_ping_checking_threads = <<>>
    /\ tm_channel_ping_history = [c \in Channels |-> <<>>]
    /\ drain = Idle
    /\ channel_ping_averages = <<>>
    /\ tm_channel_ping_averages = <<>>
    /\ report = None
    /\ sweep_has_failed = FALSE
    /\ created = 0
    /\ ingested = [w \in Stores \X Channels |-> <<>>]

SamplerStep(t) ==
    \/ Measure(t)
    \/ CheckQsize(t)
    \/ OverflowGet(t)
    \/ Put(t)

Next ==
    \/ setup_hook
    \/ close
    \/ \E t \in DOMAIN threads : SamplerStep(t)
    \/ \E site \in Sites : BeginDrain(site)
    \/ DrainGet
    \/ DrainQsize
    \/ check_threads_and_restart
    \/ tm_check_threads_and_restart

Spec == Init /\ [][Next]_vars

\* ================================================================ claims
\* Every history window that exists, of the module and of the TaskManager.
Windows ==
    [w \in ({"module"} \X DOMAIN channel_ping_history)
           \cup ({"tm"} \X DOMAIN tm_channel_ping_history) |->
        IF w[1] = "module" THEN channel_ping_history[w[2]]
                           ELSE tm_channel_ping_history[w[2]]]

Ids(w) == [i \in DOMAIN w |-> w[i].id]

RECURSIVE SumOver(_, _)
SumOver(f, S) ==
    IF S = {} THEN 0
    ELSE LET x == CHOOSE y \in S : TRUE IN f[x] + SumOver(f, S \ {x})

\* C1: once monitoring is initialised, whatever drains have run, every
\* history window holds at most its capacity of samples, and the windows of a
\* store together hold at most (number of channels) x (capacity).
WindowsWithinCapacity ==
    phase # "constructed" =>
        /\ \A w \in DOMAIN Windows : Len(Windows[w]) <= WindowCap
        /\ SumOver([c \in DOMAIN channel_ping_history |->
                       Len(channel_ping_history[c])],
                   DOMAIN channel_ping_history) <= NumChannels * WindowCap

\* C1 witness: a drain has finished and left a window at full capacity
\* after more samples than its capacity were appended to it.
WindowFullAfterDrain ==
    /\ drain = Idle
    /\ phase = "running"
    /\ \E c \in DOMAIN channel_ping_history :
         /\ Len(channel_ping_history[c]) = WindowCap
         /\ Len(ingested[<<"module", c>>]) = WindowCap + 1

\* C2: a window that more than its capacity of samples were appended to
\* holds exactly capacity samples, the last ones appended, in arrival order.
WindowHoldsLastAppended ==
    \A w \in DOMAIN Windows :
        Len(ingested[w]) > WindowCap =>
            /\ Len(Windows[w]) = WindowCap
            /\ Ids(Windows[w]) = LastN(ingested[w], WindowCap)

\* C2 witness: a window whose oldest sample was evicted by an append.
WindowEvictedOldest ==
    \E c \in DOMAIN channel_ping_history :
        /\ Len(ingested[<<"module", c>>]) > WindowCap
        /\ Head(ingested[<<"module", c>>]) \notin
              Range(Ids(channel_ping_history[c]))

\* A supervisor sweep that got past its early return.
SweepStep ==
    \/ check_threads_and_restart /\ queue # None
    \/ tm_check_threads_and_restart /\ tm_queue # None

\* The threads a list supervises that have terminated.
DeadIn(list) == {t \in Range(list) : ~is_alive(t)}

\* After the step, `list` holds a thread created by the step that is alive,
\* samples the channel of thread t and publishes into t's queue.
ReplacedIn(t, list) ==
    \E u \in Range(list) :
        /\ u \notin DOMAIN threads
        /\ threads'[u].alive
        /\ threads'[u].pc = "sleep"
        /\ threads'[u].channel = threads[t].channel
        /\ threads'[u].ip_addr = CHANNEL_TO_IP[threads[t].channel]
        /\ threads'[u].result_queue = threads[t].result_queue

\* C3: a supervisor sweep leaves, for every supervised Sampler thread that
\* has terminated, a started live Sampler for the same channel on the same
\* queue, and no supervised thread that is dead.
SweepRestartsDeadSamplers ==
    [][SweepStep =>
         /\ \A t \in DeadIn(ping_checking_threads) :
               ReplacedIn(t, ping_checking_threads')
         /\ \A t \in DeadIn(tm_ping_checking_threads) :
               ReplacedIn(t, tm_ping_checking_threads')
         /\ \A u \in Range(ping_checking_threads')
                     \cup Range(tm_ping_checking_threads') :
               threads'[u].alive]_vars

\* C3 witness: a sweep has replaced a terminated Sampler, and the
\* replacement is alive on the module's queue.
SamplerWasRestarted ==
    \E d \in DOMAIN threads, u \in Range(ping_checking_threads) :
        /\ ~threads[d].alive
        /\ threads[d].handled
        /\ u > d
        /\ threads[u].alive
        /\ threads[u].channel = threads[d].channel
        /\ threads[u].result_queue = queue

\* C4: no queue ever holds more than MAX_QUEUE_SIZE samples.
QueueWithinCapacity ==
    \A q \in DOMAIN queues : Len(queues[q]) <= MAX_QUEUE_SIZE

\* ------------------------------------------------- scheduling assumptions
\* Every PingCheckingThread object the model can create.
ThreadIds == 1..(NumChannels + MaxDeaths)

\* The operating system keeps scheduling every thread that can take a step:
\* the Sampler threads, and the event-loop thread inside a drain loop.  The
\* module's tasks.loop keeps running check_threads_and_restart, and the
\* TaskManager's keeps running check_ping_and_notify, while the event loop
\* is free.  No command has to be issued.
Fairness ==
    /\ \A t \in ThreadIds : WF_vars(t \in DOMAIN threads /\ SamplerStep(t))
    /\ WF_vars(DrainGet)
    /\ WF_vars(DrainQsize)
    /\ WF_vars(check_threads_and_restart)
    /\ WF_vars(BeginDrain("tm_notify"))

FairSpec == Spec /\ Fairness

\* A Sampler that has built a Packet and has not put it yet.
Publishing(t) ==
    t \in DOMAIN threads /\ threads[t].pc \in {"qsize", "get", "put"}

\* The model has used up its Packets while a live Sampler is about to probe:
\* in the program that Sampler goes on to publish.
Starved ==
    /\ created = MaxPackets
    /\ \E u \in DOMAIN threads : threads[u].alive /\ threads[u].pc = "sleep"

\* C5: a Sampler that has built a Packet eventually completes its put.
SamplerPutCompletes ==
    \A t \in ThreadIds : Publishing(t) ~> (~Publishing(t) \/ Starved)

\* The results of the probe for a connection attempt that failed.
FailedProbes == {<<>>, <<None>>}

\* C6: a Sampler whose probe reported a failed connection attempt is alive
\* and holds (until it has put it and is back at the top of its loop) a
\* failed sample; no failed measurement ends the thread.
FailedProbeYieldsFailedSample ==
    \A t \in DOMAIN threads :
        (threads[t].pc # "sleep" /\ threads[t].latency \in FailedProbes) =>
            /\ threads[t].alive
            /\ threads[t].packet # None
            /\ ~threads[t].packet.success
            /\ threads[t].packet.ping = 0

\* Thread t executes line 101.
PutStep(t) == threads[t].pc = "put" /\ threads'[t].pc = "sleep"

\* ping is the integer part of the float x.
IsIntegerPartOf(ping, x) ==
    ping * 10 <= x.tenths /\ x.tenths < (ping + 1) * 10

\* The Packet thread t holds is the one its last probe calls for.
PacketMatchesProbe(t) ==
    LET p == threads[t].packet
        l == threads[t].latency
    IN /\ p.channel = threads[t].channel
       /\ p.success => l # <<>> /\ IsIntegerPartOf(p.ping, l[1])
       /\ ~p.success => p.ping = 0

HandlesFor(list, c) == {i \in DOMAIN list : threads[list[i]].channel = c}

LiveFor(c) ==
    {t \in DOMAIN threads : threads[t].alive /\ threads[t].channel = c}

\* C8: from initialize_monitoring to cleanup_monitoring, whatever sweeps have
\* run, the supervised threads are exactly one handle per channel (no thread
\* is supervised twice or by both supervisors), and at no time does a channel
\* have two live Sampler threads.
OneSamplerPerChannel ==
    /\ phase = "running" =>
          \A c \in Channels :
              Cardinality(HandlesFor(ping_checking_threads, c))
                + Cardinality(HandlesFor(tm_ping_checking_threads, c)) = 1
    /\ \A c \in Channels : Cardinality(LiveFor(c)) <= 1

\* C8 witness: after a sweep has replaced a dead Sampler, every channel has
\* its one live Sampler and the replacement is about to publish.
AllChannelsLiveAfterRestart ==
    /\ phase = "running"
    /\ \E d \in DOMAIN threads : ~threads[d].alive /\ threads[d].handled
    /\ \A c \in Channels : Cardinality(LiveFor(c)) = 1
    /\ \E u \in Range(ping_checking_threads) :
          u > NumChannels /\ threads[u].pc = "put"

\* C9: in every window the timestamps are non-decreasing from the oldest
\* sample to the newest.
WindowTimesNonDecreasing ==
    \A w \in DOMAIN Windows : \A i, j \in DOMAIN Windows[w] :
        i < j => Windows[w][i].time <= Windows[w][j].time

\* The Packets that are in a queue, in a Sampler's hands, or were appended.
QueuedIds == UNION {Range(Ids(queues[q])) : q \in DOMAIN queues}

HeldIds == {threads[t].packet.id : t \in {u \in DOMAIN threads : Publishing(u)}}

AppendedIds == UNION {Range(ingested[w]) : w \in DOMAIN ingested}

\* C9 witness: the Sampler of a channel has died and been replaced, an older
\* sample has been removed from the queue by the overflow policy (it is in no
\* queue, hand or window, and in the running phase a drain loses nothing),
\* and the channel's window holds two later samples in time order.
WindowSpansRestartAndDrop ==
    /\ phase = "running"
    /\ \E c \in DOMAIN channel_ping_history :
         LET w == channel_ping_history[c] IN
           /\ Len(w) = 2
           /\ w[1].time < w[2].time
           /\ \E d \in DOMAIN threads, u \in Range(ping_checking_threads) :
                 /\ threads[d].channel = c /\ ~threads[d].alive
                 /\ threads[u].channel = c /\ threads[u].alive /\ u > d
           /\ \E id \in 1..created :
                 /\ id < w[1].id
                 /\ id \notin QueuedIds \cup HeldIds \cup AppendedIds

\* No element occurs twice in the sequence s.
NoDuplicates(s) == \A i, j \in DOMAIN s : i < j => s[i] # s[j]

\* The event loop executes queue.get() and the append of a drain loop.
DrainGetStep == drain.pc = "get" /\ drain' # drain

NoCommandDrains == [](drain.site \notin {"ping", "ping_graph"})

ThreadsAfterFailedSweep(list, q, k) ==
    [t \in DOMAIN threads |->
        IF t \in Range(list) /\ ~is_alive(t)
        THEN [threads[t] EXCEPT !.handled = TRUE] ELSE threads[t]]
    \o Replacements(SubSeq(DeadChannels(list), 1, k - 1), q)

ListAfterFailedSweep(list, k) ==
    Sweep(list) \o [i \in 1..(k - 1) |-> Len(threads) + i]

check_threads_and_restart_start_raises ==
    /\ drain = Idle
    /\ phase = "running"
    /\ ~sweep_has_failed
    /\ queue # None
    /\ \E k \in 1..Len(DeadChannels(ping_checking_threads)) :
         /\ threads' =
              ThreadsAfterFailedSweep(ping_checking_threads, queue, k)
         /\ ping_checking_threads' =
              ListAfterFailedSweep(ping_checking_threads, k)
    /\ sweep_has_failed' = TRUE
    /\ UNCHANGED <<phase, now, queues, queue, channel_ping_history, tm_vars,
                   drain, stats_vars, history_vars>>

FaultNext ==
    \/ Next
    \/ check_threads_and_restart_start_raises

FaultSpec == Init /\ [][FaultNext]_vars

\* The next sweep finds a dead thread of channel c in the list, which is
\* what makes it start a replacement.
AttemptedAtNextSweep(c) ==
    /\ ~sweep_has_failed
    /\ \E t \in Range(ping_checking_threads) :
          threads[t].channel = c /\ ~is_alive(t)

\* C13: while the bot runs, also after a sweep in which starting a
\* replacement raised, every channel that has no live Sampler is attempted
\* again at the next sweep.
DeadChannelsStaySupervised ==
    phase = "running" =>
        \A c \in Channels : LiveFor(c) = {} => AttemptedAtNextSweep(c)

\* =========================================================== statistics
\* The statistics the handlers compute from the windows.  A mean or a
\* standard deviation rounded to 2 decimals is kept as an integer number of
\* hundredths: 98.99 is 9899.

\* round(num / den, 2) for num >= 0 and den > 0, in hundredths.  Python
\* rounds a tie to the even neighbour.
Round2(num, den) ==
    LET q == (100 * num) \div den
        r == (100 * num) % den
    IN IF 2 * r < den THEN q
       ELSE IF 2 * r > den THEN q + 1
       ELSE IF q % 2 = 0 THEN q ELSE q + 1

\* The largest m in lo..hi with m * m <= x, given lo * lo <= x.
RECURSIVE FloorSqrtIn(_, _, _)
FloorSqrtIn(x, lo, hi) ==
    IF lo = hi THEN lo
    ELSE LET mid == (lo + hi + 1) \div 2 IN
         IF mid * mid <= x THEN FloorSqrtIn(x, mid, hi)
                           ELSE FloorSqrtIn(x, lo, mid - 1)

\* The integer part of the square root of x, for 0 <= x < 2^31.
FloorSqrt(x) == FloorSqrtIn(x, 0, 46340)

SumOfSquares(pings) == SeqSum([i \in DOMAIN pings |-> pings[i] * pings[i]])

\* round(statistics.mean(pings), 2): the sum over the count.
MeanRounded(pings) == Round2(SeqSum(pings), Len(pings))

\* statistics.stdev(pings) raises StatisticsError for fewer than two values.
StdevRaises(pings) == Len(pings) < 2

\* The standard deviation of the whole population: the sum of squared
\* deviations over n instead of n - 1, which is sqrt(a) / n.
PopulationStdevRounded(pings) ==
    LET n == Len(pings)
        a == n * SumOfSquares(pings) - SeqSum(pings) * SeqSum(pings)
    IN (((2 * FloorSqrt(10000 * a)) \div n) + 1) \div 2

\* round(statistics.stdev(pings), 2) for two values or more: the square root
\* of the sum of squared deviations from the mean over n - 1, which is
\* (n * sum(x^2) - sum(x)^2) / (n * (n - 1)).  The nearest hundredth to s is
\* (floor(200 * s) + 1) div 2.
StdevRounded(pings) ==
    LET n == Len(pings)
        a == n * SumOfSquares(pings) - SeqSum(pings) * SeqSum(pings)
    IN (FloorSqrt((20000 * a) \div ((n * (n - 1)) \div 2)) + 1) \div 2

\* [packet.ping for packet in window if packet.success], and the same list
\* without the condition.
SuccessfulPings(window) ==
    LET kept == SelectSeq(window, LAMBDA packet : packet.success)
    IN [i \in DOMAIN kept |-> kept[i].ping]

AllPings(window) == [i \in DOMAIN window |-> window[i].ping]

\* channel_ping_averages is a dict from channel to (mean, stddev); a dict
\* keeps its keys in the order of their first insertion.  It is kept as the
\* sequence of its items.
Entry(channel, avg, std) == [channel |-> channel, avg |-> avg, std |-> std]

DictHas(d, k) == \E i \in DOMAIN d : d[i].channel = k

DictGet(d, k) == d[CHOOSE i \in DOMAIN d : d[i].channel = k]

\* d[k] = (avg, std)
DictSet(d, k, avg, std) ==
    IF DictHas(d, k)
    THEN [i \in DOMAIN d |->
            IF d[i].channel = k THEN Entry(k, avg, std) ELSE d[i]]
    ELSE Append(d, Entry(k, avg, std))

\* The places that compute statistics from a window, and the list of pings
\* each builds: TaskManager.check_ping_and_notify has no `if
\* packet.success`.
StatSites == {"ping", "check_ping_and_notify", "tm_check_ping_and_notify",
              "get_channel_statistics"}

PingsAt(site, window) ==
    IF site = "tm_check_ping_and_notify" THEN AllPings(window)
                                         ELSE SuccessfulPings(window)

\* The statistics loop of a handler, `for channel in CHANNEL_TO_IP.keys()`,
\* from channel c on.  A channel with an empty list keeps the entry it has;
\* stdev raises on a list of one value, before the assignment, and a window
\* that is missing raises KeyError: the loop ends there with the entries
\* assigned so far.
RECURSIVE StatsLoop(_, _, _, _)
StatsLoop(c, hist, avgs, site) ==
    IF c > NumChannels
    THEN [averages |-> avgs, error |-> "", raised_at |-> 0]
    ELSE IF c \notin DOMAIN hist
    THEN [averages |-> avgs, error |-> "KeyError", raised_at |-> c]
    ELSE LET pings == PingsAt(site, hist[c])
         IN IF Len(pings) = 0
            THEN StatsLoop(c + 1, hist, avgs, site)
            ELSE IF StdevRaises(pings)
            THEN [averages |-> avgs, error |-> "StatisticsError",
                  raised_at |-> c]
            ELSE StatsLoop(c + 1, hist,
                           DictSet(avgs, c, MeanRounded(pings),
                                   StdevRounded(pings)),
                           site)

\* The value sorted() compares: x[1][0] or x[1][1].
KeyOf(e, key) == IF key = "avg" THEN e.avg ELSE e.std

\* e goes in front of the first element it must precede: sorted() is stable,
\* also with reverse=True.
RECURSIVE InsertSorted(_, _, _, _)
InsertSorted(sorted, e, key, reverse) ==
    IF sorted = <<>> THEN <<e>>
    ELSE IF (IF reverse THEN KeyOf(Head(sorted), key) < KeyOf(e, key)
                        ELSE KeyOf(Head(sorted), key) > KeyOf(e, key))
    THEN <<e>> \o sorted
    ELSE <<Head(sorted)>> \o InsertSorted(Tail(sorted), e, key, reverse)

\* sorted(d.items(), key=..., reverse=...)
RECURSIVE SortedFrom(_, _, _, _)
SortedFrom(done, rest, key, reverse) ==
    IF rest = <<>> THEN done
    ELSE SortedFrom(InsertSorted(done, Head(rest), key, reverse),
                    Tail(rest), key, reverse)

Sorted(d, key, reverse) == SortedFrom(<<>>, d, key, reverse)

\* s[::-1] and s[:n]
Reversed(s) == [i \in DOMAIN s |-> s[Len(s) + 1 - i]]

Take(s, n) == IF Len(s) <= n THEN s ELSE SubSeq(s, 1, n)

\* The four sections of the /ping embed, five rows each.
Rankings(avgs) ==
    LET highest_avg_ping == Sorted(avgs, "avg", TRUE)
        highest_std_dev  == Sorted(avgs, "std", TRUE)
    IN [highest_avg_ping |-> Take(highest_avg_ping, 5),
        highest_std_dev  |-> Take(highest_std_dev, 5),
        lowest_avg_ping  |-> Take(Reversed(highest_avg_ping), 5),
        lowest_std_dev   |-> Take(Reversed(highest_std_dev), 5)]

\* The breach decision of the alert checks: the first loop sets high_ping
\* at an entry whose mean is > 200, the second sets high_std_dev at an entry
\* whose stddev is > 100, and the notification is sent if either is set.
Decision(avgs) ==
    LET high_ping    == \E i \in DOMAIN avgs : avgs[i].avg > 200 * 100
        high_std_dev == \E i \in DOMAIN avgs : avgs[i].std > 100 * 100
    IN [high_ping |-> high_ping, high_std_dev |-> high_std_dev,
        notifications |-> IF high_ping \/ high_std_dev THEN 1 ELSE 0]

\* What an operation gave back: its argument, the exception that ended it
\* ("" for none), the channel of the statistics loop it was raised at (0 for
\* none), and its result.
Report(op, arg, error, raised_at, result) ==
    [op |-> op, arg |-> arg, error |-> error, raised_at |-> raised_at,
     result |-> result]

\* ------------------------------------------- the statistics operations
\* StatsSpec follows the same state through the operations that compute or
\* report statistics, each taken as one step: a whole iteration of a
\* Sampler, the handlers from their drain loop to their reply, the alert
\* checks and the three query functions of the module.  The latencies are
\* chosen around the thresholds of the alert checks: 50.5 ms and 350.9 ms
\* give the pings 50 and 350, whose mean is exactly 200.
StatsLatencies == {Float(505), Float(3509)}

StatsProbeResults == {<<>>} \cup {<<l>> : l \in StatsLatencies}

\* `while qsize() > MAX_QUEUE_SIZE: get()` with no other thread in between.
RECURSIVE AfterOverflow(_)
AfterOverflow(items) ==
    IF Len(items) > MAX_QUEUE_SIZE THEN AfterOverflow(QueueGet(items).rest)
    ELSE items

\* One iteration of run(): sleep, probe, build the Packet, make room, put.
run_once(t) ==
    /\ phase = "running"
    /\ threads[t].alive
    /\ threads[t].pc = "sleep"
    /\ created < MaxSamples
    /\ \E latency \in StatsProbeResults :
         LET q == threads[t].result_queue.obj
             packet == Packet(created + 1, threads[t].channel,
                              PingOf(latency), now + 1, SuccessOf(latency))
         IN queues' = [queues EXCEPT
                         ![q] = QueuePut(AfterOverflow(queues[q]), packet)]
    /\ now' = now + 1
    /\ created' = created + 1
    /\ report' = None
    /\ UNCHANGED <<phase, threads, queue, ping_checking_threads,
                   channel_ping_history, tm_vars, drain,
                   channel_ping_averages, tm_channel_ping_averages,
                   sweep_has_failed, ingested>>

\* A whole drain loop on a queue that no Sampler touches meanwhile, into
\* windows that exist: the windows, and the log of appends, afterwards.
RECURSIVE DrainAll(_, _)
DrainAll(items, hist) ==
    IF items = <<>> THEN hist
    ELSE DrainAll(Tail(items),
                  [hist EXCEPT ![Head(items).channel] =
                      DequeAppend(@, Head(items), WindowCap)])

RECURSIVE IngestedAfter(_, _, _)
IngestedAfter(items, store, log) ==
    IF items = <<>> THEN log
    ELSE IngestedAfter(Tail(items), store,
                       [log EXCEPT ![<<store, Head(items).channel>>] =
                           Append(@, Head(items).id)])

\* The items a drain loop finds (a queue that is None is skipped), and the
\* queues once it has taken them all.
PendingIn(q) == IF q = None THEN <<>> ELSE queues[q.obj]

Emptied(q) == IF q = None THEN queues ELSE [queues EXCEPT ![q.obj] = <<>>]

\* handle_ping_command: the drain loop, the statistics loop with
\* `if packet.success`, then the embed.  An exception of the statistics loop
\* leaves the handler before any reply.
handle_ping_command ==
    /\ phase = "running"
    /\ LET items == PendingIn(queue)
           hist  == DrainAll(items, channel_ping_history)
           calc  == StatsLoop(1, hist, channel_ping_averages, "ping")
       IN /\ queues' = Emptied(queue)
          /\ channel_ping_history' = hist
          /\ ingested' = IngestedAfter(items, "module", ingested)
          /\ channel_ping_averages' = calc.averages
          /\ report' = Report("ping", None, calc.error, calc.raised_at,
                              IF calc.error = ""
                              THEN Rankings(calc.averages) ELSE None)
    /\ UNCHANGED <<phase, now, threads, queue, ping_checking_threads,
                   tm_vars, drain, tm_channel_ping_averages,
                   sweep_has_failed, created>>

\* handle_ping_graph_command(channel): the drain loop, then the successful
\* pings and their times of channel_ping_history.get(channel, []), plotted,
\* or "No ping data available" when there is none.
handle_ping_graph_command(channel) ==
    /\ phase = "running"
    /\ LET items == PendingIn(queue)
           hist  == DrainAll(items, channel_ping_history)
           kept  == IF channel \in DOMAIN hist
                    THEN SelectSeq(hist[channel], LAMBDA p : p.success)
                    ELSE <<>>
       IN /\ queues' = Emptied(queue)
          /\ channel_ping_history' = hist
          /\ ingested' = IngestedAfter(items, "module", ingested)
          /\ report' = Report("ping_graph", channel, "", 0,
                              IF kept = <<>> THEN None
                              ELSE [channel_pings |->
                                        [i \in DOMAIN kept |-> kept[i].ping],
                                    channel_times |->
                                        [i \in DOMAIN kept |-> kept[i].time]])
    /\ UNCHANGED <<phase, now, threads, queue, ping_checking_threads,
                   tm_vars, drain, channel_ping_averages,
                   tm_channel_ping_averages, sweep_has_failed, created>>

\* check_ping_and_notify(client) of the module: early return on a queue
\* that is None, the drain loop, the statistics loop with `if
\* packet.success`, the breach decision and the notification.  An exception
\* of the statistics loop leaves the coroutine.
check_ping_and_notify ==
    /\ phase = "running"
    /\ IF queue = None
       THEN /\ report' = Report("check_ping_and_notify", None, "", 0, None)
            /\ UNCHANGED <<queues, channel_ping_history, ingested,
                           channel_ping_averages>>
       ELSE LET items == PendingIn(queue)
                hist  == DrainAll(items, channel_ping_history)
                calc  == StatsLoop(1, hist, channel_ping_averages,
                                   "check_ping_and_notify")
            IN /\ queues' = Emptied(queue)
               /\ channel_ping_history' = hist
               /\ ingested' = IngestedAfter(items, "module", ingested)
               /\ channel_ping_averages' = calc.averages
               /\ report' = Report("check_ping_and_notify", None,
                                   calc.error, calc.raised_at,
                                   IF calc.error = ""
                                   THEN Decision(calc.averages) ELSE None)
    /\ UNCHANGED <<phase, now, threads, queue, ping_checking_threads,
                   tm_vars, drain, tm_channel_ping_averages,
                   sweep_has_failed, created>>

\* TaskManager.check_ping_and_notify, every 5 minutes: early return on a
\* queue that is None; otherwise the same steps on the TaskManager's state,
\* with a list of pings that has no `if packet.success`, inside a try that
\* logs any exception.
tm_check_ping_and_notify ==
    /\ phase = "running"
    /\ IF tm_queue = None
       THEN /\ report' = Report("tm_check_ping_and_notify", None, "", 0, None)
            /\ UNCHANGED <<queues, tm_channel_ping_history, ingested,
                           tm_channel_ping_averages>>
       ELSE LET items == PendingIn(tm_queue)
                hist  == DrainAll(items, tm_channel_ping_history)
                calc  == StatsLoop(1, hist, tm_channel_ping_averages,
                                   "tm_check_ping_and_notify")
            IN /\ queues' = Emptied(tm_queue)
               /\ tm_channel_ping_history' = hist
               /\ ingested' = IngestedAfter(items, "tm", ingested)
               /\ tm_channel_ping_averages' = calc.averages
               /\ report' = Report("tm_check_ping_and_notify", None,
                                   calc.error, calc.raised_at,
                                   IF calc.error = ""
                                   THEN Decision(calc.averages) ELSE None)
    /\ UNCHANGED <<phase, now, threads, queue, ping_checking_threads,
                   channel_ping_history, tm_queue, tm_ping_checking_threads,
                   drain, channel_ping_averages, sweep_has_failed, created>>

\* get_channel_statistics(channel): None for a channel without a window or
\* without a successful sample, else (mean, stddev, count) with a stddev of
\* 0.0 for a single sample.
ChannelStatistics(hist, channel) ==
    IF channel \notin DOMAIN hist THEN None
    ELSE LET pings == PingsAt("get_channel_statistics", hist[channel]) IN
         IF Len(pings) = 0 THEN None
         ELSE [avg_ping |-> MeanRounded(pings),
               std_dev  |-> IF Len(pings) > 1 THEN StdevRounded(pings) ELSE 0,
               count    |-> Len(pings)]

get_channel_statistics(channel) ==
    /\ phase = "running"
    /\ report' = Report("get_channel_statistics", channel, "", 0,
                        ChannelStatistics(channel_ping_history, channel))
    /\ UNCHANGED <<phase, now, threads, queues, queue, ping_checking_threads,
                   channel_ping_history, tm_vars, drain,
                   channel_ping_averages, tm_channel_ping_averages,
                   sweep_has_failed, history_vars>>

\* get_best_channels(count) and get_most_stable_channels(count): the first
\* `count` items of channel_ping_averages by ascending mean or stddev ([] for
\* an empty dict).
BestChannels(avgs, count) == Take(Sorted(avgs, "avg", FALSE), count)

MostStableChannels(avgs, count) == Take(Sorted(avgs, "std", FALSE), count)

get_best_channels(count) ==
    /\ phase = "running"
    /\ report' = Report("get_best_channels", count, "", 0,
                        BestChannels(channel_ping_averages, count))
    /\ UNCHANGED <<phase, now, threads, queues, queue, ping_checking_threads,
                   channel_ping_history, tm_vars, drain,
                   channel_ping_averages, tm_channel_ping_averages,
                   sweep_has_failed, history_vars>>

get_most_stable_channels(count) ==
    /\ phase = "running"
    /\ report' = Report("get_most_stable_channels", count, "", 0,
                        MostStableChannels(channel_ping_averages, count))
    /\ UNCHANGED <<phase, now, threads, queues, queue, ping_checking_threads,
                   channel_ping_history, tm_vars, drain,
                   channel_ping_averages, tm_channel_ping_averages,
                   sweep_has_failed, history_vars>>

StatsNext ==
    \/ setup_hook
    \/ \E t \in DOMAIN threads : run_once(t)
    \/ handle_ping_command
    \/ \E channel \in Channels \cup {NumChannels + 1} :
          handle_ping_graph_command(channel)
    \/ check_ping_and_notify
    \/ tm_check_ping_and_notify
    \/ \E channel \in Channels \cup {NumChannels + 1} :
          get_channel_statistics(channel)
    \/ \E count \in {1, 5} : get_best_channels(count)
    \/ \E count \in {1, 5} : get_most_stable_channels(count)

StatsSpec == Init /\ [][StatsNext]_vars

\* ------------------------------------------------- statistics: the claims
\* The number of successful samples in a window.
SuccessCount(window) ==
    Cardinality({i \in DOMAIN window : window[i].success})

\* C14: statistics are computed over successful samples only at every site
\* that computes them: on every window, the list of pings each of the four
\* sites builds has one value per successful sample (a success=False sample
\* contributes to no mean or standard deviation), and any two sites that
\* compute a mean from the window compute the same mean.
StatisticsOverSuccessfulSamples ==
    \A w \in DOMAIN Windows : \A s1 \in StatSites : \A s2 \in StatSites :
        LET window == Windows[w]
            pings1 == PingsAt(s1, window)
            pings2 == PingsAt(s2, window)
        IN /\ Len(pings1) = SuccessCount(window)
           /\ (pings1 # <<>> /\ pings2 # <<>>)
                  => MeanRounded(pings1) = MeanRounded(pings2)

\* The operation the step just taken ran ("" when it ran none that reports).
ReportOp == IF report = None THEN "" ELSE report.op

\* The step just taken ran a statistics loop: /ping, or an alert check that
\* got past its early return.
StatisticsComputed ==
    \/ ReportOp \in {"ping", "check_ping_and_notify"}
    \/ ReportOp = "tm_check_ping_and_notify" /\ tm_queue # None

\* The windows and the dict of statistics that loop works on.
HistoryAt(op) ==
    IF op = "tm_check_ping_and_notify" THEN tm_channel_ping_history
                                       ELSE channel_ping_history

AveragesAt(op) ==
    IF op = "tm_check_ping_and_notify" THEN tm_channel_ping_averages
                                       ELSE channel_ping_averages

\* The statistics loop reached channel c and got through it.
LoopPassed(c) == report.raised_at = 0 \/ report.raised_at > c

\* C15: a window with exactly one successful sample yields standard deviation
\* 0 and no error at every statistics computation: after /ping or an alert
\* check, no exception was raised at such a channel and its entry has
\* standard deviation 0; get_channel_statistics of such a channel returns a
\* standard deviation of 0.
SingleSampleStdevIsZero ==
    /\ StatisticsComputed =>
          \A c \in DOMAIN HistoryAt(ReportOp) :
              SuccessCount(HistoryAt(ReportOp)[c]) = 1 =>
                  /\ report.raised_at # c
                  /\ LoopPassed(c) =>
                        /\ DictHas(AveragesAt(ReportOp), c)
                        /\ DictGet(AveragesAt(ReportOp), c).std = 0
    /\ (/\ ReportOp = "get_channel_statistics"
        /\ report.arg \in DOMAIN channel_ping_history
        /\ SuccessCount(channel_ping_history[report.arg]) = 1) =>
          /\ report.error = ""
          /\ report.result # None
          /\ report.result.std_dev = 0

\* C16: a channel whose current window contains only success=False samples
\* yields "no data": after /ping or an alert check has computed statistics,
\* no exception was raised at that channel and the dict of statistics, which
\* the rankings and the threshold check read, has no entry for it, neither
\* 0 nor a value left from an earlier window; get_channel_statistics of that
\* channel returns None.
OnlyFailedSamples(window) == window # <<>> /\ SuccessCount(window) = 0

FailedWindowYieldsNoData ==
    /\ StatisticsComputed =>
          \A c \in DOMAIN HistoryAt(ReportOp) :
              OnlyFailedSamples(HistoryAt(ReportOp)[c]) =>
                  /\ report.raised_at # c
                  /\ ~DictHas(AveragesAt(ReportOp), c)
    /\ (/\ ReportOp = "get_channel_statistics"
        /\ report.arg \in DOMAIN channel_ping_history
        /\ OnlyFailedSamples(channel_ping_history[report.arg])) =>
          /\ report.error = ""
          /\ report.result = None

\* The rows a report query has just returned: the four rankings of /ping,
\* or the list of get_best_channels or get_most_stable_channels.
ReportedRows ==
    IF ReportOp = "ping" /\ report.result # None
    THEN Range(report.result.highest_avg_ping)
             \cup Range(report.result.highest_std_dev)
             \cup Range(report.result.lowest_avg_ping)
             \cup Range(report.result.lowest_std_dev)
    ELSE IF ReportOp \in {"get_best_channels", "get_most_stable_channels"}
    THEN Range(report.result)
    ELSE {}

\* The row (channel, mean, stddev) is what the successful samples now in the
\* channel's window give.
RowIsOfCurrentWindow(row) ==
    /\ row.channel \in DOMAIN channel_ping_history
    /\ LET pings == SuccessfulPings(channel_ping_history[row.channel])
       IN /\ pings # <<>>
          /\ row.avg = MeanRounded(pings)
          /\ row.std = IF Len(pings) > 1 THEN StdevRounded(pings) ELSE 0

\* C17: channel statistics are derived from the current window, not stored:
\* when a report query returns (the rankings of /ping, get_best_channels,
\* get_most_stable_channels), the mean and standard deviation of every
\* channel it reports are those of the successful samples currently in that
\* channel's window.
ReportedStatisticsAreCurrent ==
    \A row \in ReportedRows : RowIsOfCurrentWindow(row)

\* m (hundredths) is the arithmetic mean of pings rounded to 2 decimals: no
\* other multiple of 0.01 is nearer to sum / n.
IsMeanOf(m, pings) ==
    LET n == Len(pings)
        d == 100 * SeqSum(pings) - m * n
    IN 2 * d <= n /\ 2 * d >= 0 - n

\* s (hundredths) is the sample standard deviation of pings, the square root
\* of sum((x - mean)^2) / (n - 1), rounded to 2 decimals.  With
\* a = n * sum(x^2) - sum(x)^2 the variance is a / (n * (n - 1)), and s is
\* the rounding of its root iff (s - 1/2)^2 <= 10^4 * variance <
\* (s + 1/2)^2.
IsSampleStdevOf(s, pings) ==
    LET n == Len(pings)
        a == n * SumOfSquares(pings) - SeqSum(pings) * SeqSum(pings)
        h == (n * (n - 1)) \div 2
    IN /\ s >= 0
       /\ s > 0 => (2 * s - 1) * (2 * s - 1) * h <= 20000 * a
       /\ 20000 * a < (2 * s + 1) * (2 * s + 1) * h

\* C18: for every window with at least two successful samples, the computed
\* mean is the arithmetic mean of the successful latencies and the computed
\* standard deviation is the sample standard deviation (n - 1 denominator),
\* each rounded to 2 decimals: the entry /ping or the module's alert check
\* has just assigned for the channel, and the tuple get_channel_statistics
\* has just returned, are these values; for latencies 10, 20, 30 the mean is
\* 20 and the standard deviation 10.
MeanAndSampleStdevComputed ==
    /\ MeanRounded(<<10, 20, 30>>) = 2000
    /\ StdevRounded(<<10, 20, 30>>) = 1000
    /\ ReportOp \in {"ping", "check_ping_and_notify"} =>
          \A c \in DOMAIN channel_ping_history :
              LET pings == SuccessfulPings(channel_ping_history[c])
              IN (Len(pings) >= 2 /\ LoopPassed(c)) =>
                    /\ DictHas(channel_ping_averages, c)
                    /\ IsMeanOf(DictGet(channel_ping_averages, c).avg, pings)
                    /\ IsSampleStdevOf(DictGet(channel_ping_averages, c).std,
                                       pings)
    /\ (/\ ReportOp = "get_channel_statistics"
        /\ report.arg \in DOMAIN channel_ping_history) =>
          LET pings == SuccessfulPings(channel_ping_history[report.arg])
          IN Len(pings) >= 2 =>
                /\ report.result # None
                /\ report.result.count = Len(pings)
                /\ IsMeanOf(report.result.avg_ping, pings)
                /\ IsSampleStdevOf(report.result.std_dev, pings)

\* C18 witness: /ping has just assigned the statistics of a window holding
\* two successful samples with different latencies (a mean between them and
\* a standard deviation above 0).
StatisticsOfTwoSamplesComputed ==
    /\ ReportOp = "ping"
    /\ report.error = ""
    /\ \E c \in DOMAIN channel_ping_history :
          LET pings == SuccessfulPings(channel_ping_history[c])
          IN /\ Len(pings) = 2
             /\ pings[1] # pings[2]
             /\ DictHas(channel_ping_averages, c)
             /\ DictGet(channel_ping_averages, c).std > 0

\* The step just taken was an alert check that got past its early return.
AlertCheckRan ==
    \/ ReportOp = "check_ping_and_notify"
    \/ ReportOp = "tm_check_ping_and_notify" /\ tm_queue # None

\* The flags the alert check ended with and whether it attempted a
\* notification; a check ended by an exception has set no flag and
\* attempted nothing.
FlagsOfCheck ==
    IF report.result = None
    THEN [high_ping |-> FALSE, high_std_dev |-> FALSE, notifications |-> 0]
    ELSE report.result

\* Thresholds in hundredths of a millisecond.
PingThreshold == 200 * 100

StdDevThreshold == 100 * 100

\* C19: the breach decision is strict greater-than: after an alert check,
\* the ping breach flag is set iff some channel's mean is > 200 and the
\* stddev breach flag iff some channel's stddev is > 100 (a channel at
\* exactly the threshold does not breach), and a notification is attempted
\* iff at least one flag is set.
BreachDecisionIsStrict ==
    AlertCheckRan =>
        LET avgs  == AveragesAt(ReportOp)
            flags == FlagsOfCheck
        IN /\ flags.high_ping <=>
                 \E i \in DOMAIN avgs : avgs[i].avg > PingThreshold
           /\ flags.high_std_dev <=>
                 \E i \in DOMAIN avgs : avgs[i].std > StdDevThreshold
           /\ flags.notifications = 1 <=>
                 (flags.high_ping \/ flags.high_std_dev)

\* The successful samples of a window exceed a threshold: their mean is
\* > 200, or there are two or more and their standard deviation is > 100.
WindowInBreach(window) ==
    LET pings == SuccessfulPings(window)
    IN /\ pings # <<>>
       /\ \/ SeqSum(pings) > 200 * Len(pings)
          \/ Len(pings) > 1 /\ StdevRounded(pings) > StdDevThreshold

\* The notifications TaskManager's sweep has just sent.
NotificationsOfSweep ==
    IF report.result = None THEN 0 ELSE report.result.notifications

\* C20: a breach event is emitted once per sweep: in the running bot, a
\* 5-minute sweep of TaskManager.check_ping_and_notify sends exactly one
\* notification if the statistics of some channel's window exceed a
\* threshold, and none otherwise.
OneNotificationPerBreachingSweep ==
    ReportOp = "tm_check_ping_and_notify" =>
        NotificationsOfSweep =
            IF \E w \in DOMAIN Windows : WindowInBreach(Windows[w])
            THEN 1 ELSE 0

\* ---------------------------------------------------- rankings: the claims
ChannelsOf(rows) == [i \in DOMAIN rows |-> rows[i].channel]

\* C21: the ranking by average ping descending that /ping has just built
\* holds the channels that have statistics in non-increasing order of mean
\* (for A: 50, B: 10, C: 30 it is A, C, B), and channels with equal means
\* appear in ascending order of their channel number, whatever order the
\* channels first obtained statistics in.
RankingDescendingTiesByKey ==
    /\ ChannelsOf(Sorted(<<Entry(1, 5000, 0), Entry(2, 1000, 0),
                           Entry(3, 3000, 0)>>, "avg", TRUE)) = <<1, 3, 2>>
    /\ (ReportOp = "ping" /\ report.result # None) =>
          LET rows == report.result.highest_avg_ping
          IN /\ Range(ChannelsOf(rows))
                   = Range(ChannelsOf(channel_ping_averages))
             /\ \A i \in DOMAIN rows : \A j \in DOMAIN rows :
                   i < j =>
                      /\ rows[i].avg >= rows[j].avg
                      /\ rows[i].avg = rows[j].avg =>
                            rows[i].channel < rows[j].channel

\* ============================================= /ping_graph, step by step
\* HandlerSpec follows handle_ping_graph_command statement by statement
\* while the Sampler threads run: the drain loop, the list of pings, the list
\* of times, the reply.  There is no await between the drain loop and the
\* reply's send, so the handler holds the event loop from its first qsize()
\* to its reply and no other coroutine starts meanwhile.  report holds the
\* handler's argument and locals.

\* channel_ping_history.get(channel, [])
HistoryGet(hist, channel) ==
    IF channel \in DOMAIN hist THEN hist[channel] ELSE <<>>

\* [packet.time for packet in window], without `if packet.success`.
AllTimes(window) == [i \in DOMAIN window |-> window[i].time]

\* [packet.time for packet in window if packet.success]
SuccessfulTimes(window) ==
    LET kept == SelectSeq(window, LAMBDA packet : packet.success)
    IN [i \in DOMAIN kept |-> kept[i].time]

\* `while queue and queue.qsize() != 0`: into the loop body, or on to the
\* list comprehensions.
GraphAfterCondition ==
    IF LoopCondition("ping_graph") THEN [site |-> "ping_graph", pc |-> "get"]
                                   ELSE [site |-> "ping_graph", pc |-> "pings"]

\* The handler is dispatched for `channel`, an int of the user's choosing,
\* and evaluates the loop condition for the first time.
GraphBegin(channel) ==
    /\ drain = Idle
    /\ phase \in {"running", "closed"}
    /\ drain' = GraphAfterCondition
    /\ report' = Report("ping_graph", channel, "", 0,
                        [channel_pings |-> <<>>, channel_times |-> <<>>,
                         reply |-> ""])
    /\ UNCHANGED <<phase, now, threads, queues, queue, ping_checking_threads,
                   channel_ping_history, tm_vars, channel_ping_averages,
                   tm_channel_ping_averages, sweep_has_failed, history_vars>>

\* Lines 217-218.  A window that is missing raises KeyError, which leaves
\* the handler: nothing is sent.
GraphGet ==
    /\ drain = [site |-> "ping_graph", pc |-> "get"]
    /\ queues[queue.obj] # <<>>
    /\ IF QueueGet(queues[queue.obj]).item.channel
             \in DOMAIN channel_ping_history
       THEN DrainGet
       ELSE /\ queues' = [queues EXCEPT
                            ![queue.obj] = QueueGet(queues[queue.obj]).rest]
            /\ drain' = Idle
            /\ report' = [report EXCEPT !.error = "KeyError"]
            /\ UNCHANGED <<phase, now, threads, queue, ping_checking_threads,
                           channel_ping_history, tm_vars,
                           channel_ping_averages, tm_channel_ping_averages,
                           sweep_has_failed, history_vars>>

\* Line 216 again.
GraphQsize ==
    /\ drain = [site |-> "ping_graph", pc |-> "qsize"]
    /\ drain' = GraphAfterCondition
    /\ UNCHANGED <<phase, now, threads, queues, queue, ping_checking_threads,
                   channel_ping_history, tm_vars, stats_vars,
                   sweep_has_failed, history_vars>>

\* Lines 221-225: channel_pings.
GraphPings ==
    /\ drain = [site |-> "ping_graph", pc |-> "pings"]
    /\ drain' = [drain EXCEPT !.pc = "times"]
    /\ report' = [report EXCEPT !.result.channel_pings =
                     SuccessfulPings(HistoryGet(channel_ping_history,
                                                report.arg))]
    /\ UNCHANGED <<phase, now, threads, queues, queue, ping_checking_threads,
                   channel_ping_history, tm_vars, channel_ping_averages,
                   tm_channel_ping_averages, sweep_has_failed, history_vars>>

\* Lines 226-230: channel_times.
GraphTimes ==
    /\ drain = [site |-> "ping_graph", pc |-> "times"]
    /\ drain' = [drain EXCEPT !.pc = "reply"]
    /\ report' = [report EXCEPT !.result.channel_times =
                     SuccessfulTimes(HistoryGet(channel_ping_history,
                                                report.arg))]
    /\ UNCHANGED <<phase, now, threads, queues, queue, ping_checking_threads,
                   channel_ping_history, tm_vars, channel_ping_averages,
                   tm_channel_ping_averages, sweep_has_failed, history_vars>>

\* Lines 232-260: "No ping data available for channel ..." when
\* channel_pings is empty, else the graph of channel_times against
\* channel_pings.
GraphReply ==
    /\ drain = [site |-> "ping_graph", pc |-> "reply"]
    /\ drain' = Idle
    /\ report' = [report EXCEPT !.result.reply =
                     IF report.result.channel_pings = <<>>
                     THEN "No ping data available" ELSE "graph"]
    /\ UNCHANGED <<phase, now, threads, queues, queue, ping_checking_threads,
                   channel_ping_history, tm_vars, channel_ping_averages,
                   tm_channel_ping_averages, sweep_has_failed, history_vars>>

\* The other drain loops of the event loop run as in Spec.
HandlerNext ==
    \/ setup_hook
    \/ close
    \/ \E t \in DOMAIN threads : SamplerStep(t)
    \/ \E channel \in Channels \cup {NumChannels + 1} : GraphBegin(channel)
    \/ GraphGet
    \/ GraphQsize
    \/ GraphPings
    \/ GraphTimes
    \/ GraphReply
    \/ \E site \in Sites \ {"ping_graph"} : BeginDrain(site)
    \/ drain.site # "ping_graph" /\ DrainGet
    \/ drain.site # "ping_graph" /\ DrainQsize

HandlerSpec == Init /\ [][HandlerNext]_vars

\* The /ping_graph handler is between its drain loop and its reply.
GraphReporting ==
    drain.site = "ping_graph" /\ drain.pc \in {"pings", "times", "reply"}

\* The successful samples now in the window the handler reports on.
GraphSamples ==
    SelectSeq(HistoryGet(channel_ping_history, report.arg),
              LAMBDA packet : packet.success)

\* C22: a report reads a consistent point-in-time view of a window: no
\* window changes while /ping_graph builds its lists, so the list of
\* latencies it has built is that of the successful samples the window holds
\* now, and once both lists are built they have equal length and their i-th
\* elements are the latency and the timestamp of the same sample.
GraphReadsConsistentView ==
    /\ [](GraphReporting =>
            LET pings == report.result.channel_pings
                times == report.result.channel_times
            IN /\ drain.pc \in {"times", "reply"} =>
                     pings = [i \in DOMAIN GraphSamples |->
                                 GraphSamples[i].ping]
               /\ drain.pc = "reply" =>
                     /\ Len(pings) = Len(times)
                     /\ \A i \in DOMAIN pings :
                           /\ i \in DOMAIN GraphSamples
                           /\ pings[i] = GraphSamples[i].ping
                           /\ times[i] = GraphSamples[i].time)
    /\ [][GraphReporting =>
            /\ channel_ping_history' = channel_ping_history
            /\ tm_channel_ping_history' = tm_channel_ping_history]_vars

\* C22 witness: /ping_graph has built both lists from a window that holds a
\* failed and a successful sample, and a Sampler has put a new sample on the
\* queue since the handler left its drain loop.
GraphBuiltWhileSamplerPublished ==
    /\ drain = [site |-> "ping_graph", pc |-> "reply"]
    /\ phase = "running"
    /\ Len(report.result.channel_times) = 1
    /\ Len(HistoryGet(channel_ping_history, report.arg)) = 2
    /\ queues[queue.obj] # <<>>

\* The channel /ping_graph is asked about has no data: it has no window, or
\* its window holds no successful sample.
GraphHasNoData == GraphSamples = <<>>

\* C23: a history query for an endpoint with no data answers "no data"
\* instead of throwing: in every state after initialize_monitoring,
\* no /ping_graph invocation ends in an exception, and one that replies
\* about a channel whose window has no successful sample, or about a number
\* that is no channel, replies "No ping data available".
NoDataIsAnsweredNotThrown ==
    /\ [](ReportOp = "ping_graph" => report.error = "")
    /\ [][(drain = [site |-> "ping_graph", pc |-> "reply"]
              /\ drain' = Idle
              /\ GraphHasNoData) =>
            report'.result.reply = "No ping data available"]_vars

\* ============================================ windows, queue and sweeps
\* window2 is window after deque.append(packet): the packet is last, and in
\* front of it is the old window, without its first element if it was full.
IsAppendOf(window2, window, packet) ==
    /\ window2 # <<>>
    /\ window2[Len(window2)] = packet
    /\ LET front == SubSeq(window2, 1, Len(window2) - 1)
       IN \/ front = window
          \/ window # <<>> /\ front = Tail(window)

\* C24: history windows have no external mutation: between
\* initialize_monitoring and cleanup_monitoring, a step that changes any
\* window is a drain loop's step that appends the Packet it takes from the
\* queue to one window and leaves the others alone; the steps of the Sampler
\* threads and of the supervisor sweeps (the steps that change a thread)
\* leave every window unchanged.
WindowsChangedOnlyByDrain ==
    [][(phase = "running" /\ phase' = "running") =>
         /\ Windows' # Windows =>
               /\ drain.pc = "get"
               /\ LET taken == Head(queues[QueueOf(drain.site).obj])
                      w     == <<StoreOf(drain.site), taken.channel>>
                  IN /\ \A v \in DOMAIN Windows :
                           v # w => Windows'[v] = Windows[v]
                     /\ IsAppendOf(Windows'[w], Windows[w], taken)
         /\ threads' # threads => Windows' = Windows]_vars

\* C24 witness: while the bot runs, a window holds a drained sample, a sweep
\* has replaced a dead Sampler, and a Sampler is publishing.
WindowFilledAmidSweepAndSamplers ==
    /\ phase = "running"
    /\ \E c \in DOMAIN channel_ping_history : channel_ping_history[c] # <<>>
    /\ \E d \in DOMAIN threads : ~threads[d].alive /\ threads[d].handled
    /\ \E t \in DOMAIN threads : threads[t].alive /\ Publishing(t)

\* Thread t executes line 100, the get() of the overflow loop.
OverflowGetStep(t) == threads[t].pc = "get" /\ threads'[t].pc = "qsize"

\* C25: the overflow policy drops a sample only on overflow and only the
\* oldest: whenever a Sampler removes a pending sample from the queue, the
\* queue holds more than MAX_QUEUE_SIZE samples at the moment of removal and
\* the removed sample is the oldest pending one, in every interleaving with
\* the other Samplers and the draining consumer.
DropsOnlyOnOverflowOldestFirst ==
    [][\A t \in DOMAIN threads :
          OverflowGetStep(t) =>
              LET q == threads[t].result_queue.obj
              IN /\ Len(queues[q]) > MAX_QUEUE_SIZE
                 /\ queues'[q] = Tail(queues[q])]_vars

\* The sweep of `list` leaves its live threads untouched and starts one
\* Sampler per dead thread: every thread of the list that is alive is in
\* list2, the list after the step, and is the same object as before (not
\* marked), no thread created by the step samples its channel, and the step
\* creates as many threads as the list has dead ones.
LiveSamplersUntouched(list, list2) ==
    /\ \A t \in Range(list) :
          is_alive(t) =>
              /\ t \in Range(list2)
              /\ threads'[t] = threads[t]
              /\ ~threads'[t].handled
              /\ \A u \in DOMAIN threads' \ DOMAIN threads :
                    threads'[u].channel # threads[t].channel
    /\ Len(threads') - Len(threads) = Cardinality(DeadIn(list))

\* C26: a supervisor sweep leaves every live Sampler untouched: a thread
\* that is alive when the sweep inspects it stays in the supervised list, is
\* not marked handled, and no second Sampler is started for its channel; the
\* number of Samplers started by a sweep equals the number found dead.
SweepLeavesLiveSamplers ==
    [][/\ (check_threads_and_restart /\ queue # None) =>
             LiveSamplersUntouched(ping_checking_threads,
                                   ping_checking_threads')
       /\ (tm_check_threads_and_restart /\ tm_queue # None) =>
             LiveSamplersUntouched(tm_ping_checking_threads,
                                   tm_ping_checking_threads')]_vars

\* C26 witness: a sweep has replaced the dead Sampler of one channel, and
\* the Sampler the other channel was given at start is still alive, listed
\* and unmarked.
LiveSamplerKeptAcrossSweep ==
    /\ phase = "running"
    /\ Len(threads) = NumChannels + 1
    /\ \E d \in Channels, t \in Channels :
          /\ ~threads[d].alive /\ threads[d].handled
          /\ d \notin Range(ping_checking_threads)
          /\ threads[t].alive /\ ~threads[t].handled
          /\ t \in Range(ping_checking_threads)
          /\ threads[NumChannels + 1].channel = threads[d].channel

\* The history map a drain loop at `site` appends to.
HistoryOfSite(site) ==
    IF StoreOf(site) = "tm" THEN tm_channel_ping_history
                            ELSE channel_ping_history

\* C27: whenever a drain loop runs (it is about to take a Packet from the
\* queue), the history map has a window for the channel of the Packet it
\* takes and for every channel of CHANNEL_TO_IP, so that no /ping or
\* /ping_graph invocation fails with a missing-key error, in any reachable
\* state, also after cleanup_monitoring while Sampler threads still publish.
WindowsExistWhenDraining ==
    drain.pc = "get" =>
        LET hist  == HistoryOfSite(drain.site)
            items == queues[QueueOf(drain.site).obj]
        IN /\ Channels \subseteq DOMAIN hist
           /\ items # <<>> => Head(items).channel \in DOMAIN hist

\* C28: the consumer's drain never blocks on an empty queue: once the drain
\* loop has observed qsize() != 0, the get() that follows finds a sample,
\* whatever the Sampler threads do in between.
DrainGetFindsSample ==
    drain.pc = "get" => queues[QueueOf(drain.site).obj] # <<>>

\* C29: each window holds only its own endpoint's samples: in every
\* reachable state, every Packet stored in the window of channel c, in
\* either store, has channel c, also after a restart that gave the channel a
\* second Sampler.
WindowHoldsOwnChannelOnly ==
    \A w \in DOMAIN Windows : \A i \in DOMAIN Windows[w] :
        Windows[w][i].channel = w[2]

\* C29 witness: the Sampler of a channel has died and a sweep has replaced
\* it; the channel's window holds two samples of different ages and the
\* replacement is about to put a third.
WindowsFilledAcrossRestart ==
    /\ phase = "running"
    /\ \E c \in DOMAIN channel_ping_history :
          \E d \in DOMAIN threads, u \in Range(ping_checking_threads) :
             /\ threads[d].channel = c /\ ~threads[d].alive
             /\ threads[d].handled
             /\ threads[u].channel = c /\ threads[u].alive
             /\ threads[u].pc = "put"
             /\ threads[u].packet # None
             /\ Len(channel_ping_history[c]) = 2
             /\ channel_ping_history[c][1].id < channel_ping_history[c][2].id
             /\ channel_ping_history[c][2].id < threads[u].packet.id

\* C30: the two implementations of the 'lowest' rankings agree: whenever
\* /ping has built its embed, its five lowest-average rows are the same
\* channels in the same order as get_best_channels(5) returns for the same
\* statistics, and its five lowest-stddev rows are those of
\* get_most_stable_channels(5), also for statistics with equal values.
LowestRankingsAgree ==
    (ReportOp = "ping" /\ report.result # None) =>
       /\ ChannelsOf(report.result.lowest_avg_ping) =
             ChannelsOf(BestChannels(channel_ping_averages, 5))
       /\ ChannelsOf(report.result.lowest_std_dev) =
             ChannelsOf(MostStableChannels(channel_ping_averages, 5))

====
